---- MODULE Spec2Model ----
(***************************************************************************)
(* SkillSwap backend (src/main.py): the five document collections and the  *)
(* request handlers that read and write them.                              *)
(*                                                                         *)
(* An ObjectId is the pair <<collection, n>>: the n-th identifier the      *)
(* store generated for that collection.  An identifier STRING, as a client *)
(* sends it, is a triple: <<"hex", collection, n>> is the 24-hex-digit     *)
(* rendering of ObjectId <<collection, n>>, and <<"bad", text, 0>> is a    *)
(* string bson.ObjectId refuses.                                           *)
(***************************************************************************)
EXTENDS Integers, Sequences, FiniteSets, TLC

VARIABLES
    db_userprofile,        \* db["userprofile"], in insertion order
    db_swipe,              \* db["swipe"]
    db_match,              \* db["match"]
    db_session,            \* db["session"]
    db_rewardtransaction,  \* db["rewardtransaction"]
    resp,                  \* the last request and the response it got
    inflight               \* swipe requests between two store steps

vars == <<db_userprofile, db_swipe, db_match, db_session, db_rewardtransaction,
          resp, inflight>>

store == <<db_userprofile, db_swipe, db_match, db_session, db_rewardtransaction>>

----------------------------------------------------------------------------
(* Bounds *)

MaxUsers == 2        \* distinct emails offered to create_or_get_user
MaxApiSwipes == 2    \* swipe records per run of the whole API (Spec)
MaxSwipes == 3       \* swipe records per run of the swipe handler (SpecSwipe)
MaxSessions == 2     \* session records per run
MaxRewards == 4      \* reward-ledger entries per run
MaxRecUsers == 3     \* distinct emails offered in SpecRec
MaxProcs == 2        \* swipe requests in progress at once (SpecConc)
MaxConcSwipes == 3   \* swipe records per run (SpecConc)

----------------------------------------------------------------------------
(* Identifiers *)

str(o) == <<"hex", o[1], o[2]>>

HTTP400 == <<"HTTPException", 400>>

\* ObjectId(id_str), or the HTTPException(400) oid raises in its place.
oid(id_str) ==
    IF id_str[1] = "hex" THEN <<id_str[2], id_str[3]>> ELSE HTTP400

BadId == <<"bad", "not-an-id", 0>>

\* A well-formed identifier no collection ever generated.
GhostId == <<"hex", "userprofile", 0>>

UserIdStr(i) == str(<<"userprofile", i>>)

----------------------------------------------------------------------------
(* Store operations *)

\* Whether a document has every field of the filter, with its value.
matches(doc, filter) ==
    \A k \in DOMAIN filter : k \in DOMAIN doc /\ doc[k] = filter[k]

\* Index of the first document matching the filter, 0 for None.
find_one(coll, filter) ==
    LET hits == {i \in DOMAIN coll : matches(coll[i], filter)}
    IN  IF hits = {} THEN 0
        ELSE CHOOSE i \in hits : \A j \in hits : i <= j

\* find_one({"$or": filters})
find_one_or(coll, filters) ==
    LET hits == {i \in DOMAIN coll : \E f \in DOMAIN filters : matches(coll[i], filters[f])}
    IN  IF hits = {} THEN 0
        ELSE CHOOSE i \in hits : \A j \in hits : i <= j

insert_one(coll, name, data) ==
    Append(coll, [_id |-> <<name, Len(coll) + 1>>] @@ data)

\* The collection after create_document(name, data); the id it returns is
\* inserted_id(coll, name).
create_document(coll, name, data) == insert_one(coll, name, data)

inserted_id(coll, name) == str(<<name, Len(coll) + 1>>)

----------------------------------------------------------------------------
(* Responses *)

NoResp == [op |-> "none", arg |-> <<>>, code |-> 0, body |-> <<>>]

Ok(op, arg, body) == [op |-> op, arg |-> arg, code |-> 200, body |-> body]

HTTPException(op, arg, code) == [op |-> op, arg |-> arg, code |-> code, body |-> <<>>]

\* existing["id"] = str(existing.pop("_id"))
WithId(doc) ==
    [k \in (DOMAIN doc \ {"_id"}) \cup {"id"} |->
        IF k = "id" THEN str(doc._id) ELSE doc[k]]

----------------------------------------------------------------------------
(* Users *)

Email(i) == <<"user", i, "@example.com">>

\* Mutant: the lookup also compares the skills offered.
email_and_skills_filter(payload) ==
    [email |-> payload.email, teach_skills |-> payload.teach_skills,
     learn_skills |-> payload.learn_skills]

\* {"email": payload.email}
email_filter(payload) == [email |-> payload.email]

create_or_get_user(payload) ==
    LET existing == find_one(db_userprofile, email_filter(payload))
    IN  /\ inflight = <<>>
        /\ IF existing # 0
           THEN /\ resp' = Ok("create_or_get_user", payload,
                              WithId(db_userprofile[existing]))
                /\ UNCHANGED db_userprofile
           ELSE LET coll == create_document(db_userprofile, "userprofile", payload)
                    doc_id == inserted_id(db_userprofile, "userprofile")
                    user == find_one(coll, [_id |-> oid(doc_id)])
                IN  /\ db_userprofile' = coll
                    /\ resp' = Ok("create_or_get_user", payload, WithId(coll[user]))
        /\ UNCHANGED <<db_swipe, db_match, db_session, db_rewardtransaction, inflight>>

----------------------------------------------------------------------------
(* Swipes and matches *)

\* Mutant: the reverse swipe may be of any action.
find_mutual_any_action(coll, payload) ==
    find_one(coll, [user_id |-> payload.target_id, target_id |-> payload.user_id])

\* The reverse-direction like: db["swipe"].find_one({user_id: target, ...}).
find_mutual(coll, payload) ==
    find_one(coll, [user_id |-> payload.target_id, target_id |-> payload.user_id,
                    action |-> "like"])

\* Mutant: the lookup tries one ordering of the pair only.
find_existing_match_one_order(coll, payload) ==
    find_one_or(coll, <<[user_a |-> payload.user_id, user_b |-> payload.target_id]>>)

\* db["match"].find_one({"$or": [{a, b}, {b, a}]})
find_existing_match(coll, payload) ==
    find_one_or(coll, <<[user_a |-> payload.user_id, user_b |-> payload.target_id],
                        [user_a |-> payload.target_id, user_b |-> payload.user_id]>>)

new_match(payload) ==
    [user_a |-> payload.user_id, user_b |-> payload.target_id, status |-> "active"]

\* payload.action not in ("like", "pass") raises HTTPException(400)
valid_action(payload) == payload.action \in {"like", "pass"}

\* Mutant: every recorded swipe goes on to the mutual-like lookup.
is_like_any(payload) == TRUE

\* Only a like goes on to the mutual-like lookup.
is_like(payload) == payload.action = "like"

\* Mutant: the lookup runs before the record is inserted.
recorded_swipes_late(payload) == db_swipe

\* The swipe collection the mutual-like lookup reads: the handler has
\* already inserted its own record.
recorded_swipes(payload) == create_document(db_swipe, "swipe", payload)

matched(match_id) == [status |-> "matched", match_id |-> match_id]

\* The whole handler as one step (requests executed one at a time).
swipe(payload) ==
    /\ inflight = <<>>
    /\ IF ~valid_action(payload)
       THEN /\ resp' = HTTPException("swipe", payload, 400)
            /\ UNCHANGED <<db_swipe, db_match>>
       ELSE LET mutual == find_mutual(recorded_swipes(payload), payload)
                existing == find_existing_match(db_match, payload)
            IN  /\ db_swipe' = create_document(db_swipe, "swipe", payload)
                /\ IF is_like(payload) /\ mutual # 0
                   THEN IF existing = 0
                        THEN /\ db_match' = create_document(db_match, "match",
                                                            new_match(payload))
                             /\ resp' = Ok("swipe", payload,
                                           matched(inserted_id(db_match, "match")))
                        ELSE /\ resp' = Ok("swipe", payload,
                                           matched(str(db_match[existing]._id)))
                             /\ UNCHANGED db_match
                   ELSE /\ resp' = Ok("swipe", payload, [status |-> "recorded"])
                        /\ UNCHANGED db_match
    /\ UNCHANGED <<db_userprofile, db_session, db_rewardtransaction, inflight>>

----------------------------------------------------------------------------
(* The swipe handler as the store steps it is made of: between two steps of *)
(* one request, steps of other requests may run.  inflight[p] is request    *)
(* slot p: its position in the handler and its local variables.             *)

Idle == [pc |-> "idle", payload |-> <<>>, existing |-> 0]

\* Lines 132-136: reject a bad action, else insert the swipe record.
swipe_record(p, payload) ==
    /\ inflight[p].pc = "idle"
    /\ IF ~valid_action(payload)
       THEN /\ resp' = HTTPException("swipe", payload, 400)
            /\ UNCHANGED <<db_swipe, inflight>>
       ELSE /\ db_swipe' = create_document(db_swipe, "swipe", payload)
            /\ inflight' = [inflight EXCEPT ![p] =
                               [pc |-> "recorded", payload |-> payload, existing |-> 0]]
            /\ UNCHANGED resp
    /\ UNCHANGED <<db_userprofile, db_match, db_session, db_rewardtransaction>>

\* Lines 138-145 and 163: the mutual-like lookup, or the "recorded" answer.
swipe_find_mutual(p) ==
    LET payload == inflight[p].payload
    IN  /\ inflight[p].pc = "recorded"
        /\ IF is_like(payload) /\ find_mutual(db_swipe, payload) # 0
           THEN /\ inflight' = [inflight EXCEPT ![p].pc = "mutual"]
                /\ UNCHANGED resp
           ELSE /\ inflight' = [inflight EXCEPT ![p] = Idle]
                /\ resp' = Ok("swipe", payload, [status |-> "recorded"])
        /\ UNCHANGED store

\* Lines 147-152: the match-existence lookup.
swipe_find_existing(p) ==
    /\ inflight[p].pc = "mutual"
    /\ inflight' = [inflight EXCEPT ![p].pc = "checked",
                        ![p].existing = find_existing_match(db_match,
                                                            inflight[p].payload)]
    /\ UNCHANGED <<store, resp>>

\* Mutant: the lookup's result is ignored and a match is always inserted.
not_existing_ignored(r) == TRUE

\* if not existing (line 153), on the lookup's result.
not_existing(r) == r.existing = 0

\* Lines 153-161: insert the match, or answer with the one found.
swipe_create_match(p) ==
    LET r == inflight[p]
    IN  /\ r.pc = "checked"
        /\ IF not_existing(r)
           THEN /\ db_match' = create_document(db_match, "match", new_match(r.payload))
                /\ resp' = Ok("swipe", r.payload,
                              matched(inserted_id(db_match, "match")))
           ELSE /\ resp' = Ok("swipe", r.payload, matched(str(db_match[r.existing]._id)))
                /\ UNCHANGED db_match
        /\ inflight' = [inflight EXCEPT ![p] = Idle]
        /\ UNCHANGED <<db_userprofile, db_swipe, db_session, db_rewardtransaction>>

----------------------------------------------------------------------------
(* Matches of a user *)

\* The loop body's lookup: the profile of the other participant, as a
\* sequence of zero (None) or one public record.
other_of(m, user_id) ==
    LET other_id == IF m.user_a = user_id THEN m.user_b ELSE m.user_a
        other == find_one(db_userprofile, [_id |-> oid(other_id)])
    IN  IF other = 0 THEN <<>> ELSE <<WithId(db_userprofile[other])>>

get_matches(user_id) ==
    LET ms == SelectSeq(db_match, LAMBDA d :
                  /\ (d.user_a = user_id \/ d.user_b = user_id)
                  /\ d.status = "active")
        raises == \E i \in DOMAIN ms :
                      oid(IF ms[i].user_a = user_id THEN ms[i].user_b
                          ELSE ms[i].user_a) = HTTP400
        enriched == [i \in DOMAIN ms |->
                        [id |-> str(ms[i]._id), other |-> other_of(ms[i], user_id)]]
    IN  /\ inflight = <<>>
        /\ resp' = IF raises THEN HTTPException("get_matches", user_id, 400)
                   ELSE Ok("get_matches", user_id, enriched)
        /\ UNCHANGED <<store, inflight>>

----------------------------------------------------------------------------
(* Sessions *)

\* Mutant: host and guest taken from the match in the other order.
new_session_swapped(payload, match) ==
    [match_id |-> payload.match_id,
     host_id |-> match.user_b,
     guest_id |-> match.user_a,
     topic |-> payload.topic,
     scheduled_time |-> payload.scheduled_time,
     mode |-> payload.mode,
     status |-> "scheduled"]

\* The document handed to create_document("session", {...}).
new_session(payload, match) ==
    [match_id |-> payload.match_id,
     host_id |-> match.user_a,
     guest_id |-> match.user_b,
     topic |-> payload.topic,
     scheduled_time |-> payload.scheduled_time,
     mode |-> payload.mode,
     status |-> "scheduled"]

create_session(payload) ==
    LET match == find_one(db_match, [_id |-> oid(payload.match_id)])
    IN  /\ inflight = <<>>
        /\ IF oid(payload.match_id) = HTTP400
           THEN /\ resp' = HTTPException("create_session", payload, 400)
                /\ UNCHANGED db_session
           ELSE IF match = 0
           THEN /\ resp' = HTTPException("create_session", payload, 404)
                /\ UNCHANGED db_session
           ELSE /\ db_session' = create_document(db_session, "session",
                       new_session(payload, db_match[match]))
                /\ resp' = Ok("create_session", payload,
                              [id |-> inserted_id(db_session, "session")])
        /\ UNCHANGED <<db_userprofile, db_swipe, db_match, db_rewardtransaction,
                       inflight>>

reward == 10

\* Mutant: the balance is set to the reward, not incremented by it.
set_skillcoins(users, uid) ==
    [i \in DOMAIN users |->
        IF users[i]._id # oid(uid) THEN users[i]
        ELSE [k \in DOMAIN users[i] \cup {"skillcoins"} |->
                 IF k = "skillcoins" THEN reward ELSE users[i][k]]]

\* update_one({"_id": oid(uid)}, {"$inc": {"skillcoins": reward}})
inc_skillcoins(users, uid) ==
    [i \in DOMAIN users |->
        IF users[i]._id # oid(uid) THEN users[i]
        ELSE IF "skillcoins" \in DOMAIN users[i]
        THEN [users[i] EXCEPT !.skillcoins = @ + reward]
        ELSE users[i] @@ [skillcoins |-> reward]]

reward_entry(uid, session_id) ==
    [user_id |-> uid, amount |-> reward,
     reason |-> <<"Completed session ", session_id>>]

\* The reward loop over uids, from ledger and profiles st: each round inserts
\* the ledger entry, then oid(uid) raises or the balance is incremented.
RECURSIVE reward_loop(_, _, _)
reward_loop(st, uids, session_id) ==
    IF uids = <<>> THEN st
    ELSE LET uid == Head(uids)
             ledger == insert_one(st.ledger, "rewardtransaction",
                                  reward_entry(uid, session_id))
         IN  IF oid(uid) = HTTP400
             THEN [ledger |-> ledger, users |-> st.users, raised |-> TRUE]
             ELSE reward_loop([ledger |-> ledger,
                               users |-> inc_skillcoins(st.users, uid),
                               raised |-> FALSE],
                              Tail(uids), session_id)

\* Mutant: completing flips the status, so a completed session is
\* scheduled again.
set_status_toggled(sessions, s) ==
    [sessions EXCEPT ![s].status =
        IF sessions[s].status = "completed" THEN "scheduled" ELSE "completed"]

\* db["session"].update_one({"_id": s["_id"]}, {"$set": {"status": "completed"}})
set_status_completed(sessions, s) ==
    [sessions EXCEPT ![s].status = "completed"]

complete_session(session_id) ==
    LET s == find_one(db_session, [_id |-> oid(session_id)])
    IN  /\ inflight = <<>>
        /\ IF oid(session_id) = HTTP400
           THEN /\ resp' = HTTPException("complete_session", session_id, 400)
                /\ UNCHANGED <<db_session, db_rewardtransaction, db_userprofile>>
           ELSE IF s = 0
           THEN /\ resp' = HTTPException("complete_session", session_id, 404)
                /\ UNCHANGED <<db_session, db_rewardtransaction, db_userprofile>>
           ELSE LET done == reward_loop([ledger |-> db_rewardtransaction,
                                         users |-> db_userprofile,
                                         raised |-> FALSE],
                                        <<db_session[s].host_id, db_session[s].guest_id>>,
                                        session_id)
                IN  /\ db_session' = set_status_completed(db_session, s)
                    /\ db_rewardtransaction' = done.ledger
                    /\ db_userprofile' = done.users
                    /\ resp' = IF done.raised
                               THEN HTTPException("complete_session", session_id, 400)
                               ELSE Ok("complete_session", session_id,
                                       [status |-> "completed",
                                        skillcoins_awarded |-> reward])
        /\ UNCHANGED <<db_swipe, db_match, inflight>>

\* int(u.get("skillcoins", 0))
balance_of(u) == IF "skillcoins" \in DOMAIN u THEN u.skillcoins ELSE 0

get_skillcoins(user_id) ==
    LET u == find_one(db_userprofile, [_id |-> oid(user_id)])
    IN  /\ inflight = <<>>
        /\ resp' = IF oid(user_id) = HTTP400
                   THEN HTTPException("get_skillcoins", user_id, 400)
                   ELSE IF u = 0
                   THEN HTTPException("get_skillcoins", user_id, 404)
                   ELSE Ok("get_skillcoins", user_id,
                           [balance |-> balance_of(db_userprofile[u])])
        /\ UNCHANGED <<store, inflight>>

----------------------------------------------------------------------------
(* Recommendations.  A skill is a sequence of characters. *)

UpperCase == <<"P", "Y", "G", "C">>
LowerCase == <<"p", "y", "g", "c">>

\* str.lower on one character
lower_char(ch) ==
    IF \E i \in DOMAIN UpperCase : UpperCase[i] = ch
    THEN LowerCase[CHOOSE i \in DOMAIN UpperCase : UpperCase[i] = ch]
    ELSE ch

\* Mutant: skills are compared as written.
str_as_written(word) == word

\* str.lower
str_lower(word) == [i \in DOMAIN word |-> lower_char(word[i])]

\* set(map(str.lower, skills))
lower_set(skills) == {str_lower(skills[i]) : i \in DOMAIN skills}

score(me, c) ==
    LET my_teach == lower_set(me.teach_skills)
        my_learn == lower_set(me.learn_skills)
        teach == lower_set(c.teach_skills)
        learn == lower_set(c.learn_skills)
    IN  Cardinality(my_teach \cap learn) * 3
        + Cardinality(teach \cap my_learn) * 3
        + Cardinality((my_teach \cup my_learn) \cap (teach \cup learn))

\* Mutant: a candidate with score 0 is kept.
score_not_negative(n) == n >= 0

\* if score > 0
score_positive(n) == n > 0

\* c_copy: the candidate with id in place of _id, and its score
scored_copy(me, c) ==
    LET c_copy == WithId(c)
    IN  [k \in DOMAIN c_copy \cup {"score"} |->
            IF k = "score" THEN score(me, c) ELSE c_copy[k]]

\* scored.sort(key=score, reverse=True): stable, so equal scores keep the
\* order they were appended in.
sort_by_score(scored) ==
    LET rank(i) ==
            Cardinality({j \in DOMAIN scored : scored[j].score > scored[i].score})
            + Cardinality({j \in DOMAIN scored :
                              j <= i /\ scored[j].score = scored[i].score})
    IN  [r \in DOMAIN scored |-> scored[CHOOSE i \in DOMAIN scored : rank(i) = r]]

\* scored[:limit], a Python slice: a negative limit counts from the end.
slice_to(scored, limit) ==
    LET n == Len(scored)
        stop == IF limit >= 0
                THEN (IF limit < n THEN limit ELSE n)
                ELSE (IF n + limit > 0 THEN n + limit ELSE 0)
    IN  SubSeq(scored, 1, stop)

recommendations(user_id, limit) ==
    LET arg == [user_id |-> user_id, limit |-> limit]
        me == find_one(db_userprofile, [_id |-> oid(user_id)])
        candidates == SelectSeq(db_userprofile, LAMBDA d : d._id # oid(user_id))
        kept == SelectSeq(candidates,
                          LAMBDA c : score_positive(score(db_userprofile[me], c)))
        scored == [i \in DOMAIN kept |-> scored_copy(db_userprofile[me], kept[i])]
    IN  /\ inflight = <<>>
        /\ resp' = IF oid(user_id) = HTTP400
                   THEN HTTPException("recommendations", arg, 400)
                   ELSE IF me = 0
                   THEN HTTPException("recommendations", arg, 404)
                   ELSE Ok("recommendations", arg,
                           slice_to(sort_by_score(scored), limit))
        /\ UNCHANGED <<store, inflight>>

----------------------------------------------------------------------------
(* Inputs *)

\* The emails a create request carries: one that has a profile, or the next
\* unused one (emails are opaque, so they are numbered in order of first use).
OfferedEmails(max) ==
    {Email(i) : i \in 1..(IF Len(db_userprofile) < max
                          THEN Len(db_userprofile) + 1 ELSE max)}

UserPayloads ==
    [name : {"Ann"}, email : OfferedEmails(MaxUsers),
     teach_skills : {<<>>}, learn_skills : {<<>>}]

\* Two users' ids and a malformed one; the handler never reads a profile.
SwipeIds == {UserIdStr(1), UserIdStr(2), BadId}

SwipePayloads ==
    [user_id : SwipeIds, target_id : SwipeIds, action : {"like", "pass", "superlike"}]

\* The identifier strings a client of the whole API can send: the id of a
\* document the store has generated (a client cannot know an ObjectId before
\* the store generates it), a well-formed id of no document, a malformed one.
KnownIds(coll) == {str(coll[i]._id) : i \in DOMAIN coll} \cup {GhostId, BadId}

ApiSwipePayloads ==
    [user_id : KnownIds(db_userprofile), target_id : KnownIds(db_userprofile),
     action : {"like", "pass", "superlike"}]

SessionPayloads ==
    [match_id : KnownIds(db_match), topic : {"TLA+"}, scheduled_time : {"2024-01-01T10:00"},
     mode : {"chat"}]

----------------------------------------------------------------------------
(* Specification: the API with every request executed atomically *)

Init ==
    /\ db_userprofile = <<>>
    /\ db_swipe = <<>>
    /\ db_match = <<>>
    /\ db_session = <<>>
    /\ db_rewardtransaction = <<>>
    /\ resp = NoResp
    /\ inflight = <<>>

CreateOrGetUser == \E payload \in UserPayloads : create_or_get_user(payload)

Swipe ==
    /\ Len(db_swipe) < MaxApiSwipes
    /\ \E payload \in ApiSwipePayloads : swipe(payload)

GetMatches == \E user_id \in KnownIds(db_userprofile) : get_matches(user_id)

CreateSession ==
    /\ Len(db_session) < MaxSessions
    /\ \E payload \in SessionPayloads : create_session(payload)

CompleteSession ==
    /\ Len(db_rewardtransaction) + 2 <= MaxRewards
    /\ \E session_id \in KnownIds(db_session) : complete_session(session_id)

GetSkillcoins == \E user_id \in KnownIds(db_userprofile) : get_skillcoins(user_id)

Next ==
    \/ CreateOrGetUser
    \/ Swipe
    \/ GetMatches
    \/ CreateSession
    \/ CompleteSession
    \/ GetSkillcoins

Spec == Init /\ [][Next]_vars

----------------------------------------------------------------------------
(* Specification: the swipe handler alone, one request at a time *)

SwipeCall ==
    /\ Len(db_swipe) < MaxSwipes
    /\ \E payload \in SwipePayloads : swipe(payload)

NextSwipe == SwipeCall

SpecSwipe == Init /\ [][NextSwipe]_vars

----------------------------------------------------------------------------
(* Specification: swipe requests whose store steps interleave *)

Procs == 1..MaxProcs

ConcIds == {UserIdStr(1), UserIdStr(2)}

ConcPayloads ==
    [user_id : ConcIds, target_id : ConcIds, action : {"like", "pass", "superlike"}]

InitConc ==
    /\ db_userprofile = <<>>
    /\ db_swipe = <<>>
    /\ db_match = <<>>
    /\ db_session = <<>>
    /\ db_rewardtransaction = <<>>
    /\ resp = NoResp
    /\ inflight = [p \in Procs |-> Idle]

SwipeRecord ==
    /\ Len(db_swipe) < MaxConcSwipes
    /\ \E p \in Procs : \E payload \in ConcPayloads : swipe_record(p, payload)

SwipeFindMutual == \E p \in Procs : swipe_find_mutual(p)

SwipeFindExisting == \E p \in Procs : swipe_find_existing(p)

SwipeCreateMatch == \E p \in Procs : swipe_create_match(p)

NextConc ==
    \/ SwipeRecord
    \/ SwipeFindMutual
    \/ SwipeFindExisting
    \/ SwipeCreateMatch

SpecConc == InitConc /\ [][NextConc]_vars

----------------------------------------------------------------------------
(* Specification: the user directory and recommendations *)

Python == <<"P", "y">>
PYTHON == <<"P", "Y">>
python == <<"p", "y">>
Guitar == <<"G">>
guitar == <<"g">>
Chess == <<"C">>

\* (teach_skills, learn_skills) of the profiles offered.
SkillProfiles ==
    { <<<<Python>>, <<Guitar>>>>,
      <<<<guitar>>, <<PYTHON>>>>,
      <<<<Guitar, guitar>>, <<python>>>>,
      <<<<Chess>>, <<>>>>,
      <<<<>>, <<>>>> }

RecPayloads ==
    {[name |-> "Ann", email |-> email, teach_skills |-> sp[1],
      learn_skills |-> sp[2]] : email \in OfferedEmails(MaxRecUsers),
                                sp \in SkillProfiles}

Limits == {-1, 0, 1, 20}

RecCreateOrGetUser == \E payload \in RecPayloads : create_or_get_user(payload)

Recommendations ==
    \E user_id \in KnownIds(db_userprofile) : \E limit \in Limits :
        recommendations(user_id, limit)

NextRec ==
    \/ RecCreateOrGetUser
    \/ Recommendations

SpecRec == Init /\ [][NextRec]_vars

----------------------------------------------------------------------------
(* Properties of the swipe handler *)

Likes(a, b) ==
    \E i \in DOMAIN db_swipe :
        /\ db_swipe[i].user_id = a
        /\ db_swipe[i].target_id = b
        /\ db_swipe[i].action = "like"

MatchesOf(a, b) ==
    {i \in DOMAIN db_match :
        \/ db_match[i].user_a = a /\ db_match[i].user_b = b
        \/ db_match[i].user_a = b /\ db_match[i].user_b = a}

\* C1: with swipe requests executed one at a time, once A has liked B and B
\* has liked A there is exactly one match record for {A,B}, it is active, and
\* a like between the two answers "matched" with the id of that one record.
C1_SingleMatch ==
    /\ \A a, b \in SwipeIds :
          Likes(a, b) /\ Likes(b, a) =>
              /\ Cardinality(MatchesOf(a, b)) = 1
              /\ \A i \in MatchesOf(a, b) : db_match[i].status = "active"
    /\ (/\ resp.op = "swipe"
        /\ resp.code = 200
        /\ resp.arg.action = "like"
        /\ Likes(resp.arg.target_id, resp.arg.user_id))
          => /\ resp.body.status = "matched"
             /\ \A i \in MatchesOf(resp.arg.user_id, resp.arg.target_id) :
                    resp.body.match_id = str(db_match[i]._id)

\* C1 witness: A and B (distinct) liked each other, then one of them liked
\* again: still one match, and the third call answered "matched".
C1_Witness ==
    /\ Len(db_swipe) = 3
    /\ db_swipe[1].user_id # db_swipe[1].target_id
    /\ db_swipe[2].user_id = db_swipe[1].target_id
    /\ db_swipe[2].target_id = db_swipe[1].user_id
    /\ db_swipe[3].user_id = db_swipe[1].user_id
    /\ db_swipe[3].target_id = db_swipe[1].target_id
    /\ \A i \in 1..3 : db_swipe[i].action = "like"
    /\ Len(db_match) = 1
    /\ resp.op = "swipe"
    /\ resp.code = 200
    /\ resp.body = matched(str(db_match[1]._id))

\* C5: a swipe call with action "pass" answers "recorded" and leaves the
\* match collection as it was.
C5_PassNeverMatches ==
    [][(/\ resp'.op = "swipe"
        /\ resp'.arg.action = "pass"
        /\ db_swipe' # db_swipe)
          => /\ db_match' = db_match
             /\ resp'.code = 200
             /\ resp'.body = [status |-> "recorded"]]_vars

\* C5 witness: the last call was a pass of X on Y, Y had liked X before, and
\* there is no match between them.
C5_Witness ==
    /\ resp.op = "swipe"
    /\ resp.code = 200
    /\ resp.arg.action = "pass"
    /\ Len(db_swipe) >= 2
    /\ db_swipe[Len(db_swipe)].action = "pass"
    /\ resp.arg.user_id # resp.arg.target_id
    /\ Likes(resp.arg.target_id, resp.arg.user_id)
    /\ MatchesOf(resp.arg.user_id, resp.arg.target_id) = {}

\* The swipe document a payload is stored as (the store adds _id).
SwipeFields(d) == [user_id |-> d.user_id, target_id |-> d.target_id, action |-> d.action]

\* C8: a swipe call with action like or pass appends exactly one record
\* holding the payload and changes no earlier record, whatever it answers;
\* the mutual-like lookup already sees that record (a like of one's own id
\* is its own reverse like, so it answers "matched"); any other action is
\* answered 400 with the swipe and match collections unchanged.
C8_SwipeRecorded ==
    [][resp'.op = "swipe" =>
          IF resp'.arg.action \in {"like", "pass"}
          THEN /\ Len(db_swipe') = Len(db_swipe) + 1
               /\ SubSeq(db_swipe', 1, Len(db_swipe)) = db_swipe
               /\ SwipeFields(db_swipe'[Len(db_swipe')]) = resp'.arg
               /\ resp'.code = 200
               /\ resp'.body.status \in {"recorded", "matched"}
               /\ (resp'.arg.action = "like" /\ resp'.arg.user_id = resp'.arg.target_id
                      => resp'.body.status = "matched")
          ELSE /\ resp'.code = 400
               /\ db_swipe' = db_swipe
               /\ db_match' = db_match]_vars

\* C8 witness: records of both outcomes are stored, and the last call, with
\* an action that is neither like nor pass, was answered 400.
C8_Witness ==
    /\ Len(db_swipe) = 2
    /\ Len(db_match) = 1
    /\ db_swipe[1].action = "pass"
    /\ db_swipe[2].action = "like"
    /\ resp.op = "swipe"
    /\ resp.arg.action = "superlike"
    /\ resp.code = 400

----------------------------------------------------------------------------
(* Properties of interleaved swipe requests *)

\* C7: a request that passed the match-existence check inserts its match
\* whatever the match collection holds by then (the check is not repeated),
\* so two requests that both passed it both insert.
C7_StaleCheckInserts ==
    [][\A p \in Procs :
          (inflight[p].pc = "checked" /\ inflight'[p].pc = "idle") =>
              IF inflight[p].existing = 0
              THEN db_match' = create_document(db_match, "match",
                                               new_match(inflight[p].payload))
              ELSE db_match' = db_match]_vars

\* C7 witness: A liked B and B liked A, nothing else was swiped, and the
\* pair {A,B} has two match records.
C7_Witness ==
    /\ Len(db_swipe) = 2
    /\ db_swipe[1].user_id # db_swipe[1].target_id
    /\ db_swipe[2].user_id = db_swipe[1].target_id
    /\ db_swipe[2].target_id = db_swipe[1].user_id
    /\ db_swipe[1].action = "like"
    /\ db_swipe[2].action = "like"
    /\ Cardinality(MatchesOf(db_swipe[1].user_id, db_swipe[1].target_id)) = 2

----------------------------------------------------------------------------
(* Properties of the whole API *)

\* Whether the last request carried an identifier string ObjectId refuses.
MalformedArg ==
    CASE resp.op = "swipe" ->
             oid(resp.arg.user_id) = HTTP400 \/ oid(resp.arg.target_id) = HTTP400
      [] resp.op \in {"get_matches", "complete_session", "get_skillcoins"} ->
             oid(resp.arg) = HTTP400
      [] resp.op = "create_session" -> oid(resp.arg.match_id) = HTTP400
      [] resp.op = "recommendations" -> oid(resp.arg.user_id) = HTTP400
      [] OTHER -> FALSE

\* C6: a request carrying a malformed identifier is answered 400, and no
\* swipe record holds a malformed identifier.
C6_MalformedIdRejected ==
    /\ MalformedArg => resp.code = 400
    /\ \A i \in DOMAIN db_swipe :
          /\ oid(db_swipe[i].user_id) # HTTP400
          /\ oid(db_swipe[i].target_id) # HTTP400

HasProfile(id_str) ==
    /\ oid(id_str) # HTTP400
    /\ \E i \in DOMAIN db_userprofile : db_userprofile[i]._id = oid(id_str)

SessionOf(id_str) == find_one(db_session, [_id |-> oid(id_str)])

\* How many of the session's two roles the user with this id holds.
Roles(s, id_str) ==
    (IF s.host_id = id_str THEN 1 ELSE 0) + (IF s.guest_id = id_str THEN 1 ELSE 0)

\* C2: a complete-session call on an existing session sets it completed,
\* credits 10 to its host's and to its guest's profile and to no other,
\* appends one ledger entry for each of the two, in that order, whose reason
\* names the session, and changes no other session.
C2_CompleteCredits ==
    [][(/\ resp'.op = "complete_session"
        /\ oid(resp'.arg) # HTTP400
        /\ SessionOf(resp'.arg) # 0)
          => LET k == SessionOf(resp'.arg)
                 s == db_session[k]
                 n == Len(db_rewardtransaction)
             IN  /\ resp'.code = 200
                 /\ db_session' = [db_session EXCEPT ![k].status = "completed"]
                 /\ HasProfile(s.host_id)
                 /\ HasProfile(s.guest_id)
                 /\ Len(db_userprofile') = Len(db_userprofile)
                 /\ \A i \in DOMAIN db_userprofile :
                        balance_of(db_userprofile'[i]) =
                            balance_of(db_userprofile[i])
                            + reward * Roles(s, str(db_userprofile[i]._id))
                 /\ Len(db_rewardtransaction') = n + 2
                 /\ SubSeq(db_rewardtransaction', 1, n) = db_rewardtransaction
                 /\ db_rewardtransaction'[n + 1].user_id = s.host_id
                 /\ db_rewardtransaction'[n + 2].user_id = s.guest_id
                 /\ \A j \in {n + 1, n + 2} :
                        /\ db_rewardtransaction'[j].amount = reward
                        /\ db_rewardtransaction'[j].reason[2] = resp'.arg]_vars

CompletedSessionsOf(id_str) ==
    {k \in DOMAIN db_session :
        /\ db_session[k].status = "completed"
        /\ (db_session[k].host_id = id_str \/ db_session[k].guest_id = id_str)}

LedgerEntriesOf(id_str) ==
    {k \in DOMAIN db_rewardtransaction : db_rewardtransaction[k].user_id = id_str}

\* C3 as stated: the balance get-skillcoins returns for an existing user is
\* 10 x the number of completed sessions the user is host or guest of, and a
\* well-formed id without a profile is answered 404.
C3_TenPerCompletedSession ==
    (resp.op = "get_skillcoins" /\ oid(resp.arg) # HTTP400) =>
        IF HasProfile(resp.arg)
        THEN /\ resp.code = 200
             /\ resp.body.balance = 10 * Cardinality(CompletedSessionsOf(resp.arg))
        ELSE resp.code = 404

\* C3 as amended: the balance is 10 x the number of reward-ledger entries
\* recorded for the user (one for each time a complete-session call credited
\* the user as host or as guest, so a session completed twice counts twice),
\* and a well-formed id without a profile is answered 404.
C3_TenPerLedgerEntry ==
    (resp.op = "get_skillcoins" /\ oid(resp.arg) # HTTP400) =>
        IF HasProfile(resp.arg)
        THEN /\ resp.code = 200
             /\ resp.body.balance = 10 * Cardinality(LedgerEntriesOf(resp.arg))
        ELSE resp.code = 404

\* C3 witness: one session between two different users was completed twice
\* and get-skillcoins answered 20 for one of them.
C3_Witness ==
    /\ Len(db_session) = 1
    /\ db_session[1].status = "completed"
    /\ db_session[1].host_id # db_session[1].guest_id
    /\ Len(db_rewardtransaction) = 4
    /\ resp.op = "get_skillcoins"
    /\ resp.code = 200
    /\ resp.arg \in {db_session[1].host_id, db_session[1].guest_id}
    /\ resp.body.balance = 20

----------------------------------------------------------------------------
(* Properties of the user directory and of recommendations *)

ProfileOfEmail(email) == find_one(db_userprofile, [email |-> email])

\* C4: in every state at most one profile has a given email; a create call
\* whose email has a profile answers with that profile, its id and fields as
\* stored, and changes no profile; a create call whose email has none appends
\* one profile holding the payload and answers with its id.
C4_CreateIdempotentByEmail ==
    /\ [](\A i, j \in DOMAIN db_userprofile :
              db_userprofile[i].email = db_userprofile[j].email => i = j)
    /\ [][resp'.op = "create_or_get_user" =>
             LET k == ProfileOfEmail(resp'.arg.email)
                 n == Len(db_userprofile)
             IN  IF k # 0
                 THEN /\ db_userprofile' = db_userprofile
                      /\ resp'.code = 200
                      /\ resp'.body = WithId(db_userprofile[k])
                 ELSE /\ Len(db_userprofile') = n + 1
                      /\ SubSeq(db_userprofile', 1, n) = db_userprofile
                      /\ resp'.body = WithId(db_userprofile'[n + 1])
                      /\ \A f \in DOMAIN resp'.arg :
                             db_userprofile'[n + 1][f] = resp'.arg[f]]_vars

\* C4 witness: one profile is stored and the last create call, with its email
\* and other skills, was answered with the stored profile.
C4_Witness ==
    /\ Len(db_userprofile) = 1
    /\ resp.op = "create_or_get_user"
    /\ resp.code = 200
    /\ resp.arg.email = db_userprofile[1].email
    /\ resp.arg.teach_skills # db_userprofile[1].teach_skills
    /\ resp.body.id = str(db_userprofile[1]._id)
    /\ resp.body.teach_skills = db_userprofile[1].teach_skills

\* Two skills that differ at most in letter case.
SameSkill(a, b) ==
    /\ Len(a) = Len(b)
    /\ \A i \in DOMAIN a : lower_char(a[i]) = lower_char(b[i])

AllSkills ==
    UNION {{sp[1][i] : i \in DOMAIN sp[1]} \cup {sp[2][i] : i \in DOMAIN sp[2]} :
           sp \in SkillProfiles}

\* One skill per class of skills equal up to letter case.
SkillClasses == {[i \in DOMAIN w |-> lower_char(w[i])] : w \in AllSkills}

\* The number of skills, up to letter case, that are in both lists.
Overlap(xs, ys) ==
    Cardinality({w \in SkillClasses :
                    /\ \E i \in DOMAIN xs : SameSkill(xs[i], w)
                    /\ \E j \in DOMAIN ys : SameSkill(ys[j], w)})

ClaimedScore(r, c) ==
    3 * Overlap(r.teach_skills, c.learn_skills)
    + 3 * Overlap(c.teach_skills, r.learn_skills)
    + Overlap(r.teach_skills \o r.learn_skills, c.teach_skills \o c.learn_skills)

ProfileOf(id_str) == find_one(db_userprofile, [_id |-> oid(id_str)])

\* C9: the score attached to each recommended candidate is
\* 3|teach(R) n learn(C)| + 3|teach(C) n learn(R)| +
\* |(teach(R) u learn(R)) n (teach(C) u learn(C))| with skills that differ
\* only in letter case counted as one skill.
C9_ScoreCaseInsensitive ==
    (resp.op = "recommendations" /\ resp.code = 200) =>
        \A e \in DOMAIN resp.body :
            /\ ProfileOf(resp.body[e].id) # 0
            /\ resp.body[e].score =
                   ClaimedScore(db_userprofile[ProfileOf(resp.arg.user_id)],
                                db_userprofile[ProfileOf(resp.body[e].id)])

\* C9 witness: R teaches Python and learns Guitar, C teaches guitar and
\* learns PYTHON, and C is recommended to R with score 8.
C9_Witness ==
    /\ resp.op = "recommendations"
    /\ resp.code = 200
    /\ Len(db_userprofile) = 2
    /\ db_userprofile[1].teach_skills = <<Python>>
    /\ db_userprofile[1].learn_skills = <<Guitar>>
    /\ db_userprofile[2].teach_skills = <<guitar>>
    /\ db_userprofile[2].learn_skills = <<PYTHON>>
    /\ resp.arg.user_id = str(db_userprofile[1]._id)
    /\ Len(resp.body) = 1
    /\ resp.body[1].id = str(db_userprofile[2]._id)
    /\ resp.body[1].score = 8

\* C10: a recommendation list holds no candidate with score <= 0 and never
\* the requester; when the limit does not cut the list, every other profile
\* whose score is > 0 is in it.
C10_OnlyPositiveOthers ==
    (resp.op = "recommendations" /\ resp.code = 200) =>
        /\ \A e \in DOMAIN resp.body :
              /\ resp.body[e].score > 0
              /\ resp.body[e].id # resp.arg.user_id
        /\ resp.arg.limit >= Len(db_userprofile) =>
              \A i \in DOMAIN db_userprofile :
                  (/\ str(db_userprofile[i]._id) # resp.arg.user_id
                   /\ ClaimedScore(db_userprofile[ProfileOf(resp.arg.user_id)],
                                   db_userprofile[i]) > 0)
                      => \E e \in DOMAIN resp.body :
                             resp.body[e].id = str(db_userprofile[i]._id)

\* C10 witness: of the requester's two candidates one scores 0 and one
\* scores more, the requester has skills, and the list holds only the one.
C10_Witness ==
    /\ resp.op = "recommendations"
    /\ resp.code = 200
    /\ resp.arg.limit = 20
    /\ Len(db_userprofile) = 3
    /\ resp.arg.user_id = str(db_userprofile[1]._id)
    /\ db_userprofile[1].teach_skills # <<>>
    /\ ClaimedScore(db_userprofile[1], db_userprofile[2]) = 0
    /\ ClaimedScore(db_userprofile[1], db_userprofile[3]) > 0
    /\ Len(resp.body) = 1
    /\ resp.body[1].id = str(db_userprofile[3]._id)

----------------------------------------------------------------------------
(* Properties of the recommendation list's length and order *)

\* C11: for every integer limit the recommendation list has at most limit
\* entries (none for a limit below 0), its scores never increase along the
\* list, and no candidate left out scores more than one that is listed.
C11_AtMostLimitSortedTop ==
    (resp.op = "recommendations" /\ resp.code = 200) =>
        /\ Len(resp.body) <= (IF resp.arg.limit < 0 THEN 0 ELSE resp.arg.limit)
        /\ \A e, f \in DOMAIN resp.body :
              e < f => resp.body[e].score >= resp.body[f].score
        /\ \A i \in DOMAIN db_userprofile :
              (/\ str(db_userprofile[i]._id) # resp.arg.user_id
               /\ \A e \in DOMAIN resp.body :
                      resp.body[e].id # str(db_userprofile[i]._id))
                  => \A e \in DOMAIN resp.body :
                         resp.body[e].score >=
                             ClaimedScore(db_userprofile[ProfileOf(resp.arg.user_id)],
                                          db_userprofile[i])

----------------------------------------------------------------------------
(* Properties of the match and session records *)

\* C12: every match record is backed by a mutual like: the swipe collection
\* holds a like from user_a to user_b and one from user_b to user_a; and the
\* match collection grows only by the step of a like that finds its reverse.
C12_MatchBackedByMutualLike ==
    /\ [](\A i \in DOMAIN db_match :
              /\ Likes(db_match[i].user_a, db_match[i].user_b)
              /\ Likes(db_match[i].user_b, db_match[i].user_a))
    /\ [][db_match' # db_match =>
             /\ resp'.op = "swipe"
             /\ resp'.arg.action = "like"
             /\ \E i \in DOMAIN db_swipe' :
                    /\ db_swipe'[i].user_id = resp'.arg.target_id
                    /\ db_swipe'[i].target_id = resp'.arg.user_id
                    /\ db_swipe'[i].action = "like"
             /\ db_match' = Append(db_match,
                    [_id |-> <<"match", Len(db_match) + 1>>,
                     user_a |-> resp'.arg.user_id,
                     user_b |-> resp'.arg.target_id,
                     status |-> "active"])]_vars

\* C12 witness: B passed on A and liked A, then A liked B: one match (A,B),
\* and both likes are stored.
C12_Witness ==
    /\ Len(db_swipe) = 3
    /\ Len(db_match) = 1
    /\ db_match[1].user_a # db_match[1].user_b
    /\ db_swipe[1].action = "pass"
    /\ db_swipe[1].user_id = db_match[1].user_b
    /\ db_swipe[1].target_id = db_match[1].user_a
    /\ db_swipe[2].user_id = db_match[1].user_b
    /\ db_swipe[3].user_id = db_match[1].user_a
    /\ Likes(db_match[1].user_a, db_match[1].user_b)
    /\ Likes(db_match[1].user_b, db_match[1].user_a)

\* The match a session's match_id resolves to (0 when there is none).
MatchOfSession(sess) ==
    IF oid(sess.match_id) = HTTP400
    THEN 0
    ELSE find_one(db_match, [_id |-> oid(sess.match_id)])

\* C13: every session refers to an existing match whose user_a is the
\* session's host_id and whose user_b is its guest_id; a create-session
\* request whose (well-formed) match id resolves to no match answers 404 and
\* leaves the session collection as it was.
C13_SessionBoundToMatch ==
    /\ [](\A i \in DOMAIN db_session :
              /\ MatchOfSession(db_session[i]) # 0
              /\ db_session[i].host_id =
                     db_match[MatchOfSession(db_session[i])].user_a
              /\ db_session[i].guest_id =
                     db_match[MatchOfSession(db_session[i])].user_b)
    /\ [][(/\ resp'.op = "create_session"
           /\ oid(resp'.arg.match_id) # HTTP400
           /\ find_one(db_match, [_id |-> oid(resp'.arg.match_id)]) = 0)
          => (resp'.code = 404 /\ db_session' = db_session)]_vars

\* C13 witness: a session of a match between two different users is stored,
\* and a later create-session for an id of no match was answered 404.
C13_Witness ==
    /\ Len(db_session) = 1
    /\ db_session[1].host_id # db_session[1].guest_id
    /\ MatchOfSession(db_session[1]) # 0
    /\ resp.op = "create_session"
    /\ resp.code = 404
    /\ resp.arg.match_id = GhostId

\* C14: a session is created 'scheduled'; the only change any step makes to
\* a stored session's status is scheduled -> completed; a completed session
\* stays completed; no session is ever 'cancelled'.
C14_StatusOneWay ==
    /\ [](\A i \in DOMAIN db_session :
              db_session[i].status \in {"scheduled", "completed"})
    /\ [][/\ DOMAIN db_session \subseteq DOMAIN db_session'
          /\ \A i \in DOMAIN db_session' \ DOMAIN db_session :
                 db_session'[i].status = "scheduled"
          /\ \A i \in DOMAIN db_session :
                 \/ db_session'[i].status = db_session[i].status
                 \/ /\ db_session[i].status = "scheduled"
                    /\ db_session'[i].status = "completed"]_vars

\* C14 witness: one session was completed twice (two pairs of ledger entries)
\* and is still completed.
C14_Witness ==
    /\ Len(db_session) = 1
    /\ db_session[1].status = "completed"
    /\ Len(db_rewardtransaction) = 4
    /\ resp.op = "complete_session"

----------------------------------------------------------------------------
(* Properties of the reward ledger and of the paired users *)

\* C15: a complete-session call answered with an error (400 or 404) leaves
\* every collection as it was: no status changed, no ledger entry appended,
\* no balance incremented.
C15_FailedCompleteChangesNothing ==
    [][(resp'.op = "complete_session" /\ resp'.code \in {400, 404})
          => store' = store]_vars

RECURSIVE LedgerSum(_, _)
\* Sum of the amounts of the first k ledger entries of this user id.
LedgerSum(id_str, k) ==
    IF k = 0
    THEN 0
    ELSE LedgerSum(id_str, k - 1) +
         (IF db_rewardtransaction[k].user_id = id_str
          THEN db_rewardtransaction[k].amount
          ELSE 0)

\* C16: between requests, every user id in the reward ledger has a profile
\* whose balance is the sum of that id's ledger amounts, and a profile whose
\* id has no ledger entry has balance 0.
C16_LedgerAgreesWithBalance ==
    inflight = <<>> =>
        /\ \A k \in DOMAIN db_rewardtransaction :
              HasProfile(db_rewardtransaction[k].user_id)
        /\ \A i \in DOMAIN db_userprofile :
              balance_of(db_userprofile[i]) =
                  LedgerSum(str(db_userprofile[i]._id), Len(db_rewardtransaction))

\* C17: no match has user_a equal to user_b, and both of every match's
\* users have a profile.
C17_MatchPairsDistinctExistingUsers ==
    \A i \in DOMAIN db_match :
        /\ db_match[i].user_a # db_match[i].user_b
        /\ HasProfile(db_match[i].user_a)
        /\ HasProfile(db_match[i].user_b)

====
